---- MODULE Spec2Model ----
(***************************************************************************)
(* A model of the todouniverse task calendar: the App component's task     *)
(* store and its handlers (src/src/App.tsx), the week calendar's day       *)
(* grouping (src/src/components/CircularCalendar.tsx) and the stats        *)
(* panel's streak and achievements (src/src/components/GameStats.tsx).     *)
(*                                                                         *)
(* Time.  A JavaScript Date is an instant; the model counts it in whole    *)
(* hours since the epoch (UTC).  The two ways the code turns an instant    *)
(* into a 'yyyy-MM-dd' string differ: date-fns format() reads the LOCAL    *)
(* calendar fields, toISOString() reads the UTC ones, and setDate() moves  *)
(* the LOCAL calendar day keeping the local time of day.  A time zone is   *)
(* a standard offset plus at most one daylight-saving change.              *)
(*                                                                         *)
(* Strings.  A date string is a record [form, day]: form "iso" is the      *)
(* canonical zero padded yyyy-MM-dd text of day number `day`, form "short" *)
(* is another spelling of the same day (such as 2024-1-5), form "missing"  *)
(* is an absent field.  String equality (===) is record equality.          *)
(***************************************************************************)
EXTENDS Integers, Sequences, FiniteSets, TLC

VARIABLES
    tasks,          \* App: useState<Task[]>, the task store
    storage,        \* localStorage entry 'react-todo-calendar-tasks'
    pending,        \* effects React still has to run for the last commit
    queued,         \* a setTasks issued inside an effect, not yet rendered
    showModal,      \* App: useState(false)
    selectedDate,   \* App: useState('')
    editingTask,    \* App: useState<Task | null>(null)
    formData,       \* App: useState({title, description, priority, category})
    showStats,      \* App: useState(false); GameStats is mounted iff TRUE
    streak,         \* GameStats: useState(0)
    totalCompleted, \* GameStats: useState(0)
    achievements,   \* GameStats: useState([...5 achievements, locked])
    walkIters,      \* iterations the last streak walk performed (observer)
    everUnlocked,   \* ids of the achievements shown unlocked so far (observer)
    reachedTen,     \* the store has held 10 or more completed tasks (observer)
    failure,        \* the exception the last step raised, "none" if none
    currentWeek,    \* CircularCalendar: useState(new Date())
    now,            \* the wall clock: new Date() / Date.now(), in hours UTC
    zone            \* the browser's time zone

vars == <<tasks, storage, pending, queued, showModal, selectedDate,
          editingTask, formData, showStats, streak, totalCompleted,
          achievements, walkIters, everUnlocked, reachedTen, failure,
          currentWeek, now, zone>>

(***************************************************************************)
(* Bounds of the model.                                                    *)
(***************************************************************************)
\* days 0..MaxDay are the days the clock and the task dates range over
MaxDay == 3
\* longest task list drawn as an input of the streak walk
MaxStreakTasks == 3
\* longest task list drawn as an input of the day grouping
MaxGroupTasks == 5
\* largest completed total / run of completed days drawn as input of the
\* achievement rules
MaxTotal == 51
MaxRun == 8
\* the calendar is navigated at most this many weeks from week 0
MaxWeekShift == 1
\* longest task store the App state machine grows
MaxTasks == 2
\* longest store the id-addressed commands are applied to
MaxCmdTasks == 2
\* longest store drawn as an input of the flush
MaxRoundTasks == 2
\* tasks dated today in the long store the stats panel is watched over
MaxToggled == 2

(***************************************************************************)
(* Dates and time zones.                                                   *)
(***************************************************************************)
HoursPerDay == 24
DaysPerWeek == 7

Days == 0..MaxDay

\* the canonical yyyy-MM-dd text of day d
DateStr(d) == [form |-> "iso", day |-> d]
\* a non canonical spelling of day d, and an absent date field
ShortStr(d) == [form |-> "short", day |-> d]
NoDateStr == [form |-> "missing", day |-> 0]
EmptyStr == [form |-> "empty", day |-> 0]

\* the hours of the day the clock is sampled at
SampleHours == {0, 12, 23}
Instants == {d * HoursPerDay + h : d \in Days, h \in SampleHours}

\* The zones: UTC; a fixed offset east and west of Greenwich; a zone that
\* goes from UTC+1 to UTC+2 (clocks forward) at 01:00 UTC of day 1; a zone
\* that goes from UTC+2 to UTC+1 (clocks back) at 01:00 UTC of day 1.
Zones ==
    { [name |-> "utc",    off |-> 0,  shift |-> 0,  at |-> 0],
      [name |-> "east",   off |-> 2,  shift |-> 0,  at |-> 0],
      [name |-> "west",   off |-> -5, shift |-> 0,  at |-> 0],
      [name |-> "spring", off |-> 1,  shift |-> 1,  at |-> HoursPerDay + 1],
      [name |-> "autumn", off |-> 2,  shift |-> -1, at |-> HoursPerDay + 1] }

\* the zone's offset from UTC in force at instant t
Offset(z, t) == IF z.shift # 0 /\ t >= z.at THEN z.off + z.shift ELSE z.off

\* local wall-clock time of instant t (hours since the epoch, local)
LocalTime(z, t) == t + Offset(z, t)

\* the instant of local wall-clock time w; a wall time that the change
\* skips or repeats is read with the offset in force before the change
FromLocal(z, w) ==
    LET before == w - z.off
        after  == w - (z.off + z.shift)
    IN  IF z.shift = 0 \/ before < z.at THEN before
        ELSE IF after >= z.at THEN after
        ELSE before

LocalDay(z, t) == LocalTime(z, t) \div HoursPerDay
UtcDay(t) == t \div HoursPerDay

\* date-fns format(date, 'yyyy-MM-dd'): the LOCAL calendar day
FormatLocal(z, t) == DateStr(LocalDay(z, t))

\* date.toISOString().split('T')[0]: the UTC calendar day
IsoDate(t) == DateStr(UtcDay(t))

\* date.setDate(date.getDate() + n): n local calendar days later, the local
\* time of day kept
SetDatePlus(z, t, n) == FromLocal(z, LocalTime(z, t) + n * HoursPerDay)

(***************************************************************************)
(* Tasks.                                                                  *)
(***************************************************************************)
\* the form's reset value (App.tsx lines 27-32, 50, 88, 186)
BlankForm ==
    [title |-> "", description |-> "", priority |-> "medium",
     category |-> "personal"]

\* a task built with two of the form's fields in each other's place
MkTaskSwapped(id, form, date, completed) ==
    [id |-> id, title |-> form.title, description |-> form.description,
     date |-> date, completed |-> completed, priority |-> form.category,
     category |-> form.priority]

\* { id, ...formData, date, completed }
MkTask(id, form, date, completed) ==
    [id |-> id, title |-> form.title, description |-> form.description,
     date |-> date, completed |-> completed, priority |-> form.priority,
     category |-> form.category]

\* array.filter stopping at the first task that is not completed
RECURSIVE FilterCompletedPrefix(_)
FilterCompletedPrefix(ts) ==
    IF ts = <<>> THEN <<>>
    ELSE IF Head(ts).completed
         THEN <<Head(ts)>> \o FilterCompletedPrefix(Tail(ts))
         ELSE <<>>

\* array.filter(pred) for pred = task.completed, element by element
RECURSIVE FilterCompleted(_)
FilterCompleted(ts) ==
    IF ts = <<>> THEN <<>>
    ELSE IF Head(ts).completed
         THEN <<Head(ts)>> \o FilterCompleted(Tail(ts))
         ELSE FilterCompleted(Tail(ts))

\* tasks.filter(task => task.completed).length
CompletedCount(ts) == Len(FilterCompleted(ts))

\* the Summary card, "Total Tasks": tasks.length
SummaryTotal(ts) == Len(ts)

\* the Summary card, "Completed": tasks.filter(t => t.completed).length
SummaryCompleted(ts) == Len(SelectSeq(ts, LAMBDA t : t.completed))

\* the Summary card, "Pending": tasks.filter(t => !t.completed).length
SummaryPending(ts) == Len(SelectSeq(ts, LAMBDA t : ~t.completed))

\* the ids of the tasks of ts
TaskIds(ts) == {ts[i].id : i \in DOMAIN ts}

\* the threshold of achievement tasks-10
TenTasks == 10

\* the observer of the completed total, once the store has become ts
ReachedTenAfter(ts) == reachedTen \/ CompletedCount(ts) >= TenTasks

(***************************************************************************)
(* GameStats: the streak walk and the achievement rules.                   *)
(***************************************************************************)
\* completedTasks.some(task => task.date === dateStr)
HasCompletedTask(completedTasks, dateStr) ==
    \E i \in DOMAIN completedTasks : completedTasks[i].date = dateStr

\* The while (true) loop: checkDate walks back one local day per completed
\* day found.  The result is the streak and the iterations performed.
RECURSIVE StreakWalkGrace(_, _, _, _, _)
StreakWalkGrace(completedTasks, z, checkDate, currentStreak, iters) ==
    LET dateStr == IsoDate(checkDate)
    IN  IF HasCompletedTask(completedTasks, dateStr)
        THEN StreakWalkGrace(completedTasks, z, SetDatePlus(z, checkDate, -1),
                             currentStreak + 1, iters + 1)
        ELSE IF iters = 0
        THEN StreakWalkGrace(completedTasks, z, SetDatePlus(z, checkDate, -1),
                             currentStreak, iters + 1)
        ELSE [streak |-> currentStreak, iters |-> iters + 1]

RECURSIVE StreakWalk(_, _, _, _, _)
StreakWalk(completedTasks, z, checkDate, currentStreak, iters) ==
    LET dateStr == IsoDate(checkDate)
    IN  IF HasCompletedTask(completedTasks, dateStr)
        THEN StreakWalk(completedTasks, z, SetDatePlus(z, checkDate, -1),
                        currentStreak + 1, iters + 1)
        ELSE [streak |-> currentStreak, iters |-> iters + 1]

\* const today = new Date(); let currentStreak = 0; checkDate = today
CurrentStreak(ts, z, today) ==
    StreakWalk(FilterCompleted(ts), z, today, 0, 0)

AchievementIds == <<"first-task", "streak-3", "streak-7", "tasks-10", "tasks-50">>

\* useState<Achievement[]>([...]): all five locked
InitialAchievements ==
    [i \in DOMAIN AchievementIds |->
        [id |-> AchievementIds[i], unlocked |-> FALSE]]

ShouldUnlockStrict(id, completedCount, currentStreak) ==
    CASE id = "first-task" -> completedCount > 1
      [] id = "streak-3"   -> currentStreak > 3
      [] id = "streak-7"   -> currentStreak > 7
      [] id = "tasks-10"   -> completedCount > 10
      [] id = "tasks-50"   -> completedCount > 50
      [] OTHER             -> FALSE

\* the switch on achievement.id
ShouldUnlock(id, completedCount, currentStreak) ==
    CASE id = "first-task" -> completedCount >= 1
      [] id = "streak-3"   -> currentStreak >= 3
      [] id = "streak-7"   -> currentStreak >= 7
      [] id = "tasks-10"   -> completedCount >= 10
      [] id = "tasks-50"   -> completedCount >= 50
      [] OTHER             -> FALSE

\* prev.map(achievement => ({ ...achievement, unlocked: shouldUnlock }))
UpdateAchievements(prev, completedCount, currentStreak) ==
    [i \in DOMAIN prev |->
        [prev[i] EXCEPT !.unlocked =
            ShouldUnlock(prev[i].id, completedCount, currentStreak)]]

\* The effect of GameStats, run after the component mounts and after every
\* render in which the tasks prop changed.
StatsEffect ==
    /\ pending # <<>>
    /\ Head(pending) = "stats"
    /\ LET completedTasks == FilterCompleted(tasks)
           walk == StreakWalk(completedTasks, zone, now, 0, 0)
       IN  /\ totalCompleted' = Len(completedTasks)
           /\ streak' = walk.streak
           /\ walkIters' = walk.iters
           /\ achievements' =
                UpdateAchievements(achievements, Len(completedTasks), walk.streak)
    /\ everUnlocked' = everUnlocked \cup
          {achievements'[i].id : i \in {j \in DOMAIN achievements' :
                                           achievements'[j].unlocked}}
    /\ pending' = Tail(pending)
    /\ UNCHANGED <<tasks, storage, queued, showModal, selectedDate, editingTask,
                   formData, showStats, reachedTen, failure,
                   currentWeek, now, zone>>

(***************************************************************************)
(* CircularCalendar: the displayed week and the day grouping.              *)
(***************************************************************************)
\* date.getDay(): the local weekday, 0 = Sunday (day 0 is 1970-01-01, a
\* Thursday)
GetDay(z, t) == (LocalDay(z, t) + 4) % DaysPerWeek

\* startOfWeek(currentWeek, { weekStartsOn: 1 }): local midnight of the
\* Monday on or before the date
StartOfWeek(z, t) ==
    LET day  == GetDay(z, t)
        diff == (IF day < 1 THEN DaysPerWeek ELSE 0) + day - 1
    IN  FromLocal(z, (LocalDay(z, t) - diff) * HoursPerDay)

\* Array.from({ length: 7 }, (_, i) => addDays(weekStart, i))
WeekDays(z, week) ==
    [i \in 1..DaysPerWeek |-> SetDatePlus(z, StartOfWeek(z, week), i - 1)]

RECURSIVE FilterByDateReversed(_, _)
FilterByDateReversed(ts, dateStr) ==
    IF ts = <<>> THEN <<>>
    ELSE IF Head(ts).date = dateStr
         THEN FilterByDateReversed(Tail(ts), dateStr) \o <<Head(ts)>>
         ELSE FilterByDateReversed(Tail(ts), dateStr)

RECURSIVE FilterByDayLenient(_, _)
FilterByDayLenient(ts, dateStr) ==
    IF ts = <<>> THEN <<>>
    ELSE IF Head(ts).date.form \in {"iso", "short"} /\ Head(ts).date.day = dateStr.day
         THEN <<Head(ts)>> \o FilterByDayLenient(Tail(ts), dateStr)
         ELSE FilterByDayLenient(Tail(ts), dateStr)

\* tasks.filter(task => task.date === dateStr), element by element
RECURSIVE FilterByDate(_, _)
FilterByDate(ts, dateStr) ==
    IF ts = <<>> THEN <<>>
    ELSE IF Head(ts).date = dateStr
         THEN <<Head(ts)>> \o FilterByDate(Tail(ts), dateStr)
         ELSE FilterByDate(Tail(ts), dateStr)

\* getTasksForDate(date)
GetTasksForDate(ts, z, date) == FilterByDate(ts, FormatLocal(z, date))

\* the cap of the task indicators: slice(0, 3), length > 3, length - 3
IndicatorCap == 3

\* tasksForDate.slice(0, 3)
ShownTasks(tasksForDate) ==
    [i \in 1..(IF Len(tasksForDate) < IndicatorCap THEN Len(tasksForDate)
               ELSE IndicatorCap) |-> tasksForDate[i]]

HasOverflowAtCap(tasksForDate) == Len(tasksForDate) >= IndicatorCap

\* tasksForDate.length > 3 && ... : is the "+N" indicator rendered
HasOverflow(tasksForDate) == Len(tasksForDate) > IndicatorCap

\* +{tasksForDate.length - 3}
OverflowCount(tasksForDate) == Len(tasksForDate) - IndicatorCap

\* the tasks the calendar renders with an onTaskClick: the indicators of the
\* seven days and the "Today's Tasks" list
SeqToSet(s) == {s[i] : i \in DOMAIN s}

ClickableTasks(ts, z, week, today) ==
    UNION {SeqToSet(ShownTasks(GetTasksForDate(ts, z, WeekDays(z, week)[i]))) :
             i \in 1..DaysPerWeek}
    \cup SeqToSet(GetTasksForDate(ts, z, today))

(***************************************************************************)
(* App: persistence, effects and handlers.                                 *)
(***************************************************************************)
NoEntry == [kind |-> "absent", value |-> <<>>]
CorruptEntry == [kind |-> "corrupt", value |-> <<>>]

\* the members of a task object
TaskFields ==
    {"id", "title", "description", "date", "completed", "priority", "category"}

\* the JSON text of a string and of a boolean
JsonString(str) == [json |-> "string", chars |-> str]
JsonBool(b) == [json |-> IF b THEN "true" ELSE "false", chars |-> ""]

\* the value JSON.parse reads from a JSON text
FromJson(j) == IF j.json = "string" THEN j.chars ELSE j.json = "true"

\* JSON.stringify(tasks): one object per task, in order; each member is
\* written as the JSON text of its value, and a member whose value is
\* undefined (an absent date) is left out
StringifyTask(t) ==
    LET members == IF t.date.form = "missing" THEN TaskFields \ {"date"}
                   ELSE TaskFields
    IN  [members |-> members,
         val |-> [m \in members |->
                     IF m = "completed" THEN JsonBool(t[m])
                     ELSE JsonString(t[m])]]

Stringify(ts) ==
    [kind |-> "json", value |-> [i \in DOMAIN ts |-> StringifyTask(ts[i])]]

\* a load that gives a member the text lacks a default: the empty string
ParseTaskDefaulting(o) ==
    [f \in TaskFields |->
        IF f \in o.members THEN FromJson(o.val[f]) ELSE EmptyStr]

\* JSON.parse(savedTasks): each member reads as the value of its text, a
\* member the text lacks reads as undefined
ParseTask(o) ==
    [f \in TaskFields |->
        IF f \in o.members THEN FromJson(o.val[f]) ELSE NoDateStr]

Parse(entry) == [i \in DOMAIN entry.value |-> ParseTask(entry.value[i])]

\* no effect is waiting and no state update is waiting for a render
Quiescent == pending = <<>> /\ queued = <<>>

\* the effects in the order parent first: the save before the child's
EffectsSaveFirst(statsMounted) ==
    <<"save">> \o (IF statsMounted THEN <<"stats">> ELSE <<>>)

\* the save effect given an empty dependency list: it runs on mount only
EffectsWithoutSave(statsMounted) ==
    IF statsMounted THEN <<"stats">> ELSE <<>>

\* the effects React runs after a commit in which `tasks` changed: the
\* child's (GameStats, when mounted) before the parent's (App's save)
EffectsAfterTasksChange(statsMounted) ==
    (IF statsMounted THEN <<"stats">> ELSE <<>>) \o <<"save">>

\* useEffect(() => { getItem; if (savedTasks) setTasks(JSON.parse(...)) }, [])
\* JSON.parse throws a SyntaxError on a text that is not JSON; nothing
\* catches it, and React unmounts the tree
LoadEffect ==
    /\ pending # <<>>
    /\ Head(pending) = "load"
    /\ IF storage.kind = "absent"
       THEN /\ pending' = Tail(pending)
            /\ queued' = queued
            /\ failure' = "none"
       ELSE IF storage.kind = "corrupt"
       THEN /\ pending' = <<"crashed">>
            /\ queued' = queued
            /\ failure' = "SyntaxError"
       ELSE /\ pending' = Tail(pending)
            /\ queued' = <<Parse(storage)>>
            /\ failure' = "none"
    /\ UNCHANGED <<tasks, storage, showModal, selectedDate, editingTask,
                   formData, showStats, streak, totalCompleted, achievements,
                   walkIters, everUnlocked, reachedTen,
                   currentWeek, now, zone>>

\* useEffect(() => { setItem(..., JSON.stringify(tasks)) }, [tasks])
\* setItem either stores the text or throws a QuotaExceededError (the
\* storage is full or disabled); nothing catches it, and React unmounts the
\* tree
SaveEffect ==
    /\ pending # <<>>
    /\ Head(pending) = "save"
    /\ \E stored \in BOOLEAN :
          IF stored
          THEN /\ storage' = Stringify(tasks)
               /\ pending' = Tail(pending)
               /\ failure' = "none"
          ELSE /\ storage' = storage
               /\ pending' = <<"crashed">>
               /\ failure' = "QuotaExceededError"
    /\ UNCHANGED <<tasks, queued, showModal, selectedDate, editingTask,
                   formData, showStats, streak, totalCompleted, achievements,
                   walkIters, everUnlocked, reachedTen,
                   currentWeek, now, zone>>

\* the render React performs for a setTasks issued inside an effect, once
\* the effects of the commit before it have run
Rerender ==
    /\ pending = <<>>
    /\ queued # <<>>
    /\ tasks' = Head(queued)
    /\ queued' = <<>>
    /\ pending' = EffectsAfterTasksChange(showStats)
    /\ reachedTen' = ReachedTenAfter(tasks')
    /\ UNCHANGED <<storage, showModal, selectedDate, editingTask, formData,
                   showStats, streak, totalCompleted, achievements, walkIters, everUnlocked, failure,
                   currentWeek, now, zone>>

\* handleDateClick(date), from a day cell of the displayed week
HandleDateClick(date) ==
    /\ Quiescent
    /\ selectedDate' = date
    /\ editingTask' = <<>>
    /\ formData' = BlankForm
    /\ showModal' = TRUE
    /\ UNCHANGED <<tasks, storage, pending, queued, showStats, streak,
                   totalCompleted, achievements, walkIters, everUnlocked, reachedTen, failure, currentWeek, now,
                   zone>>

\* handleEventClick(task), from a task indicator
HandleEventClick(task) ==
    /\ Quiescent
    /\ editingTask' = <<task>>
    /\ formData' = [title |-> task.title, description |-> task.description,
                    priority |-> task.priority, category |-> task.category]
    /\ selectedDate' = task.date
    /\ showModal' = TRUE
    /\ UNCHANGED <<tasks, storage, pending, queued, showStats, streak,
                   totalCompleted, achievements, walkIters, everUnlocked, reachedTen, failure, currentWeek, now,
                   zone>>

\* the Quick Add button: "+ Add Task for Today"
QuickAdd ==
    /\ Quiescent
    /\ selectedDate' = FormatLocal(zone, now)
    /\ editingTask' = <<>>
    /\ formData' = BlankForm
    /\ showModal' = TRUE
    /\ UNCHANGED <<tasks, storage, pending, queued, showStats, streak,
                   totalCompleted, achievements, walkIters, everUnlocked, reachedTen, failure, currentWeek, now,
                   zone>>

\* the onChange of a form field: setFormData({ ...formData, [field]: value })
ChangeField(field, value) ==
    /\ Quiescent
    /\ showModal
    /\ formData' = [formData EXCEPT ![field] = value]
    /\ UNCHANGED <<tasks, storage, pending, queued, showModal, selectedDate,
                   editingTask, showStats, streak, totalCompleted,
                   achievements, walkIters, everUnlocked, reachedTen, failure, currentWeek, now, zone>>

\* the onChange of the date input: setSelectedDate(e.target.value)
ChangeDate(date) ==
    /\ Quiescent
    /\ showModal
    /\ selectedDate' = date
    /\ UNCHANGED <<tasks, storage, pending, queued, showModal, editingTask,
                   formData, showStats, streak, totalCompleted, achievements,
                   walkIters, everUnlocked, reachedTen, failure, currentWeek, now, zone>>

\* an update that rebuilds the task the way the create branch builds one:
\* { id, ...formData, date: selectedDate, completed: false }
UpdateTaskRebuilt(ts, id, form, date) ==
    [i \in DOMAIN ts |->
        IF ts[i].id = id THEN MkTask(id, form, date, FALSE) ELSE ts[i]]

\* an update that spreads the form over the task and forgets the date:
\* { ...task, ...formData }
UpdateTaskKeepDate(ts, id, form, date) ==
    [i \in DOMAIN ts |->
        IF ts[i].id = id
        THEN [ts[i] EXCEPT !.title = form.title,
                           !.description = form.description,
                           !.priority = form.priority,
                           !.category = form.category]
        ELSE ts[i]]

\* tasks.map(task => task.id === editingTask.id
\*                   ? { ...task, ...formData, date: selectedDate } : task)
UpdateTask(ts, id, form, date) ==
    [i \in DOMAIN ts |->
        IF ts[i].id = id
        THEN [ts[i] EXCEPT !.title = form.title,
                           !.description = form.description,
                           !.priority = form.priority,
                           !.category = form.category,
                           !.date = date]
        ELSE ts[i]]

\* a removal by position: splice(findIndex(...), 1), and findIndex is -1
\* when no id matches
RemoveTaskBySplice(ts, id) ==
    IF \E i \in DOMAIN ts : ts[i].id = id
    THEN LET k == CHOOSE i \in DOMAIN ts :
                     /\ ts[i].id = id
                     /\ \A j \in 1..(i - 1) : ts[j].id # id
         IN  [i \in 1..(Len(ts) - 1) |-> IF i < k THEN ts[i] ELSE ts[i + 1]]
    ELSE [i \in 1..(Len(ts) - 1) |-> ts[i]]

\* tasks.filter(task => task.id !== editingTask.id)
RECURSIVE RemoveTask(_, _)
RemoveTask(ts, id) ==
    IF ts = <<>> THEN <<>>
    ELSE IF Head(ts).id # id
         THEN <<Head(ts)>> \o RemoveTask(Tail(ts), id)
         ELSE RemoveTask(Tail(ts), id)

\* tasks.map(task => task.id === taskId
\*                   ? { ...task, completed: !task.completed } : task)
ToggleTask(ts, taskId) ==
    [i \in DOMAIN ts |->
        IF ts[i].id = taskId
        THEN [ts[i] EXCEPT !.completed = ~ts[i].completed]
        ELSE ts[i]]

\* Date.now().toString()
NewId == now

\* handleSubmit: the form's required fields (title, date) are filled
HandleSubmit ==
    /\ Quiescent
    /\ showModal
    /\ formData.title # ""
    /\ selectedDate.form = "iso"
    /\ IF editingTask # <<>>
       THEN tasks' = UpdateTask(tasks, Head(editingTask).id, formData, selectedDate)
       ELSE /\ Len(tasks) < MaxTasks
            /\ tasks' = Append(tasks, MkTask(NewId, formData, selectedDate, FALSE))
    /\ showModal' = FALSE
    /\ formData' = BlankForm
    /\ pending' = EffectsAfterTasksChange(showStats)
    /\ reachedTen' = ReachedTenAfter(tasks')
    /\ failure' = "none"
    /\ UNCHANGED <<storage, queued, selectedDate, editingTask, showStats,
                   streak, totalCompleted, achievements, walkIters, everUnlocked,
                   currentWeek, now, zone>>

\* handleDelete, from the modal's delete button (rendered when editing)
HandleDelete ==
    /\ Quiescent
    /\ showModal
    /\ editingTask # <<>>
    /\ tasks' = RemoveTask(tasks, Head(editingTask).id)
    /\ showModal' = FALSE
    /\ pending' = EffectsAfterTasksChange(showStats)
    /\ reachedTen' = ReachedTenAfter(tasks')
    /\ failure' = "none"
    /\ UNCHANGED <<storage, queued, selectedDate, editingTask, formData,
                   showStats, streak, totalCompleted, achievements, walkIters, everUnlocked,
                   currentWeek, now, zone>>

\* toggleTaskCompletion(editingTask.id), from the modal's checkbox
ToggleTaskCompletion ==
    /\ Quiescent
    /\ showModal
    /\ editingTask # <<>>
    /\ tasks' = ToggleTask(tasks, Head(editingTask).id)
    /\ pending' = EffectsAfterTasksChange(showStats)
    /\ reachedTen' = ReachedTenAfter(tasks')
    /\ failure' = "none"
    /\ UNCHANGED <<storage, queued, showModal, selectedDate, editingTask,
                   formData, showStats, streak, totalCompleted, achievements,
                   walkIters, everUnlocked, currentWeek, now, zone>>

\* the modal's close button: setShowModal(false)
CloseModal ==
    /\ Quiescent
    /\ showModal
    /\ showModal' = FALSE
    /\ UNCHANGED <<tasks, storage, pending, queued, selectedDate, editingTask,
                   formData, showStats, streak, totalCompleted, achievements,
                   walkIters, everUnlocked, reachedTen, failure, currentWeek, now, zone>>

\* setShowStats(!showStats): GameStats mounts with its initial state and its
\* effect pending, or unmounts and its state is dropped
ToggleStats ==
    /\ Quiescent
    /\ showStats' = ~showStats
    /\ streak' = 0
    /\ totalCompleted' = 0
    /\ achievements' = InitialAchievements
    /\ walkIters' = 0
    /\ pending' = IF showStats THEN <<>> ELSE <<"stats">>
    /\ UNCHANGED <<tasks, storage, queued, showModal, selectedDate,
                   editingTask, formData, everUnlocked, reachedTen, failure, currentWeek, now, zone>>

\* the week navigation: setCurrentWeek(addDays(currentWeek, -7 | 7))
ChangeWeek(n) ==
    /\ Quiescent
    /\ currentWeek' = SetDatePlus(zone, currentWeek, n)
    /\ UNCHANGED <<tasks, storage, pending, queued, showModal, selectedDate,
                   editingTask, formData, showStats, streak, totalCompleted,
                   achievements, walkIters, everUnlocked, reachedTen, failure, now, zone>>

\* time passes
Tick(t) ==
    /\ Quiescent
    /\ t > now
    /\ now' = t
    /\ UNCHANGED <<tasks, storage, pending, queued, showModal, selectedDate,
                   editingTask, formData, showStats, streak, totalCompleted,
                   achievements, walkIters, everUnlocked, reachedTen, failure, currentWeek, zone>>

(***************************************************************************)
(* The streak walk on its own: GameStats mounted over a task list, a clock *)
(* and a zone drawn from bounded sets, its effect about to run.            *)
(***************************************************************************)
RECURSIVE SeqsUpTo(_, _)
SeqsUpTo(S, n) ==
    IF n = 0 THEN {<<>>}
    ELSE LET shorter == SeqsUpTo(S, n - 1)
         IN  shorter \cup {Append(s, x) : s \in {t \in shorter : Len(t) = n - 1}, x \in S}

\* input tasks: the id is the position, the date a canonical day
Renumber(ts) == [i \in DOMAIN ts |-> [ts[i] EXCEPT !.id = i]]

StreakTaskChoices ==
    {MkTask(0, BlankForm, DateStr(d), c) : d \in Days, c \in BOOLEAN}

InitStreak ==
    /\ tasks \in {Renumber(ts) : ts \in SeqsUpTo(StreakTaskChoices, MaxStreakTasks)}
    /\ now \in Instants
    /\ zone \in Zones
    /\ showStats = TRUE
    /\ pending = <<"stats">>
    /\ streak = 0
    /\ totalCompleted = 0
    /\ achievements = InitialAchievements
    /\ walkIters = 0
    /\ everUnlocked = {}
    /\ reachedTen = (CompletedCount(tasks) >= TenTasks)
    /\ failure = "none"
    /\ storage = [kind |-> "absent"]
    /\ queued = <<>>
    /\ showModal = FALSE
    /\ selectedDate = EmptyStr
    /\ editingTask = <<>>
    /\ formData = BlankForm
    /\ currentWeek = now

NextStreak == StatsEffect

SpecStreak == InitStreak /\ [][NextStreak]_vars

(***************************************************************************)
(* The achievement rules on their own: GameStats mounted over a store with *)
(* `total` completed tasks whose last `run` days up to today are all       *)
(* covered, and one task that is not completed.                            *)
(***************************************************************************)
AchToday == MaxRun + 2

AchTasks(total, run) ==
    [i \in 1..(total + 1) |->
        IF i = total + 1
        THEN MkTask(i, BlankForm, DateStr(AchToday), FALSE)
        ELSE MkTask(i, BlankForm,
                    DateStr(IF i <= run THEN AchToday - (i - 1)
                            ELSE IF run = 0 THEN AchToday - 2
                            ELSE AchToday),
                    TRUE)]

InitAch ==
    /\ \E total \in 0..MaxTotal :
         \E run \in 0..(IF total < MaxRun THEN total ELSE MaxRun) :
            tasks = AchTasks(total, run)
    /\ now = AchToday * HoursPerDay + 12
    /\ zone \in {z \in Zones : z.name = "utc"}
    /\ showStats = TRUE
    /\ pending = <<"stats">>
    /\ streak = 0
    /\ totalCompleted = 0
    /\ achievements = InitialAchievements
    /\ walkIters = 0
    /\ everUnlocked = {}
    /\ reachedTen = (CompletedCount(tasks) >= TenTasks)
    /\ failure = "none"
    /\ storage = Stringify(tasks)
    /\ queued = <<>>
    /\ showModal = FALSE
    /\ selectedDate = EmptyStr
    /\ editingTask = <<>>
    /\ formData = BlankForm
    /\ currentWeek = now

NextAch == StatsEffect

SpecAch == InitAch /\ [][NextAch]_vars

(***************************************************************************)
(* The day grouping on its own: the calendar over a store drawn from a     *)
(* bounded set, navigated week by week.                                    *)
(***************************************************************************)
\* dates of the input tasks: a Thursday, the Monday after it, another
\* spelling of that Thursday, and no date at all
GroupTaskChoices ==
    {MkTask(0, BlankForm, d, FALSE) :
        d \in {DateStr(0), DateStr(4), ShortStr(0), NoDateStr}}

InitGroup ==
    /\ tasks \in {Renumber(ts) : ts \in SeqsUpTo(GroupTaskChoices, MaxGroupTasks)}
    /\ now \in {12, 23}
    /\ zone \in {z \in Zones : z.name \in {"utc", "east", "west"}}
    /\ currentWeek = now
    /\ storage = Stringify(tasks)
    /\ pending = <<>>
    /\ queued = <<>>
    /\ showModal = FALSE
    /\ selectedDate = EmptyStr
    /\ editingTask = <<>>
    /\ formData = BlankForm
    /\ showStats = FALSE
    /\ streak = 0
    /\ totalCompleted = 0
    /\ achievements = InitialAchievements
    /\ walkIters = 0
    /\ everUnlocked = {}
    /\ reachedTen = (CompletedCount(tasks) >= TenTasks)
    /\ failure = "none"

\* the index of the week a date lies in (week 0 holds day 0)
WeekIndex(z, t) == (LocalDay(z, t) + 3) \div DaysPerWeek

NextGroup ==
    \E n \in {-DaysPerWeek, DaysPerWeek} :
        /\ WeekIndex(zone, SetDatePlus(zone, currentWeek, n)) \in
              (-MaxWeekShift)..MaxWeekShift
        /\ ChangeWeek(n)

SpecGroup == InitGroup /\ [][NextGroup]_vars

(***************************************************************************)
(* The application: mounted over a stored entry, then driven by the user.  *)
(***************************************************************************)
\* what the storage may hold when the page loads
StoredLists ==
    { <<>>,
      <<MkTask(0, [BlankForm EXCEPT !.title = "a"], DateStr(0), TRUE)>> }

InitialEntries == {NoEntry, CorruptEntry} \cup {Stringify(ts) : ts \in StoredLists}

\* the zones and the instants the application is run in
\* (UTC+2: at 12:00 UTC the local day is the UTC day, at 23:00 UTC it is
\* the next one)
AppZones == {z \in Zones : z.name = "east"}
AppInstants == {12, 23, HoursPerDay + 12}
\* the dates the user picks in the date input and on the calendar
AppDates == {DateStr(0), DateStr(1)}

\* the application with its two mount effects declared in the other order:
\* the save effect runs before the load effect
InitSaveFirst ==
    /\ tasks = <<>>
    /\ storage \in InitialEntries
    /\ pending = <<"save", "load">>
    /\ queued = <<>>
    /\ showModal = FALSE
    /\ selectedDate = EmptyStr
    /\ editingTask = <<>>
    /\ formData = BlankForm
    /\ showStats = FALSE
    /\ streak = 0
    /\ totalCompleted = 0
    /\ achievements = InitialAchievements
    /\ walkIters = 0
    /\ everUnlocked = {}
    /\ reachedTen = (CompletedCount(tasks) >= TenTasks)
    /\ failure = "none"
    /\ now = 12
    /\ currentWeek = now
    /\ zone \in AppZones

Init ==
    /\ tasks = <<>>
    /\ storage \in InitialEntries
    /\ pending = <<"load", "save">>
    /\ queued = <<>>
    /\ showModal = FALSE
    /\ selectedDate = EmptyStr
    /\ editingTask = <<>>
    /\ formData = BlankForm
    /\ showStats = FALSE
    /\ streak = 0
    /\ totalCompleted = 0
    /\ achievements = InitialAchievements
    /\ walkIters = 0
    /\ everUnlocked = {}
    /\ reachedTen = (CompletedCount(tasks) >= TenTasks)
    /\ failure = "none"
    /\ now = 12
    /\ currentWeek = now
    /\ zone \in AppZones

\* the day cells of the displayed week that lie in the model's days
ClickableDates ==
    {FormatLocal(zone, WeekDays(zone, currentWeek)[i]) : i \in 1..DaysPerWeek}
    \cap AppDates

Next ==
    \/ LoadEffect
    \/ SaveEffect
    \/ StatsEffect
    \/ Rerender
    \/ \E date \in ClickableDates : HandleDateClick(date)
    \/ \E task \in ClickableTasks(tasks, zone, currentWeek, now) : HandleEventClick(task)
    \/ QuickAdd
    \/ \E v \in {"a"} : ChangeField("title", v)
    \/ \E date \in AppDates : ChangeDate(date)
    \/ HandleSubmit
    \/ HandleDelete
    \/ ToggleTaskCompletion
    \/ CloseModal
    \/ ToggleStats
    \/ \E t \in AppInstants : Tick(t)

Spec == Init /\ [][Next]_vars

(***************************************************************************)
(* The stats panel over a long store: `base` completed tasks dated outside *)
(* the displayed week, and MaxToggled tasks dated today that the user      *)
(* opens from the calendar and completes or un-completes.                  *)
(***************************************************************************)
EverTasks(base) ==
    [i \in 1..(base + MaxToggled) |->
        IF i <= base
        THEN MkTask(i, [BlankForm EXCEPT !.title = "a"],
                    DateStr(-2 * DaysPerWeek), TRUE)
        ELSE MkTask(i, [BlankForm EXCEPT !.title = "a"], DateStr(0), FALSE)]

InitEver ==
    /\ \E base \in {TenTasks - 2, TenTasks - 1} : tasks = EverTasks(base)
    /\ now = 12
    /\ zone \in {z \in Zones : z.name = "utc"}
    /\ currentWeek = now
    /\ storage = Stringify(tasks)
    /\ showStats = TRUE
    /\ pending = <<"stats">>
    /\ queued = <<>>
    /\ showModal = FALSE
    /\ selectedDate = EmptyStr
    /\ editingTask = <<>>
    /\ formData = BlankForm
    /\ streak = 0
    /\ totalCompleted = 0
    /\ achievements = InitialAchievements
    /\ walkIters = 0
    /\ everUnlocked = {}
    /\ reachedTen = (CompletedCount(tasks) >= TenTasks)
    /\ failure = "none"

NextEver ==
    \/ StatsEffect
    \/ SaveEffect
    \/ \E task \in ClickableTasks(tasks, zone, currentWeek, now) : HandleEventClick(task)
    \/ ToggleTaskCompletion
    \/ CloseModal
    \/ ToggleStats

SpecEver == InitEver /\ [][NextEver]_vars

(***************************************************************************)
(* The application with the stats panel left closed: the store, its        *)
(* persistence and the modal.  GameStats reads the store and writes        *)
(* neither the store nor the storage.                                      *)
(***************************************************************************)
InitStore == Init

NextStore ==
    \/ LoadEffect
    \/ SaveEffect
    \/ Rerender
    \/ \E date \in ClickableDates : HandleDateClick(date)
    \/ \E task \in ClickableTasks(tasks, zone, currentWeek, now) : HandleEventClick(task)
    \/ QuickAdd
    \/ \E v \in {"a"} : ChangeField("title", v)
    \/ \E date \in AppDates : ChangeDate(date)
    \/ HandleSubmit
    \/ HandleDelete
    \/ ToggleTaskCompletion
    \/ CloseModal
    \/ \E t \in AppInstants : Tick(t)

SpecStore == InitStore /\ [][NextStore]_vars

(***************************************************************************)
(* The application during its first day (UTC), the stats panel opened and  *)
(* closed at will.                                                         *)
(***************************************************************************)
InitPanel == Init

\* the instants of the first day
PanelInstants == {t \in AppInstants : t < HoursPerDay}

NextPanel ==
    \/ LoadEffect
    \/ SaveEffect
    \/ StatsEffect
    \/ Rerender
    \/ \E date \in ClickableDates : HandleDateClick(date)
    \/ \E task \in ClickableTasks(tasks, zone, currentWeek, now) : HandleEventClick(task)
    \/ QuickAdd
    \/ \E v \in {"a"} : ChangeField("title", v)
    \/ \E date \in AppDates : ChangeDate(date)
    \/ HandleSubmit
    \/ HandleDelete
    \/ ToggleTaskCompletion
    \/ CloseModal
    \/ ToggleStats
    \/ \E t \in PanelInstants : Tick(t)

SpecPanel == InitPanel /\ [][NextPanel]_vars

(***************************************************************************)
(* The flush on its own: a store drawn from a bounded set, over every      *)
(* shape of date and both values of the other fields, its save effect      *)
(* about to run.                                                           *)
(***************************************************************************)
RoundTaskChoices ==
    {MkTask(0, [title |-> ti, description |-> "", priority |-> pr,
                category |-> "work"], d, c) :
        ti \in {"a"}, pr \in {"low", "high"},
        d \in {DateStr(0), ShortStr(0), EmptyStr, NoDateStr}, c \in BOOLEAN}

InitRound ==
    /\ tasks \in {Renumber(ts) : ts \in SeqsUpTo(RoundTaskChoices, MaxRoundTasks)}
    /\ storage = NoEntry
    /\ pending = <<"save">>
    /\ queued = <<>>
    /\ showModal = FALSE
    /\ selectedDate = EmptyStr
    /\ editingTask = <<>>
    /\ formData = BlankForm
    /\ showStats = FALSE
    /\ streak = 0
    /\ totalCompleted = 0
    /\ achievements = InitialAchievements
    /\ walkIters = 0
    /\ everUnlocked = {}
    /\ reachedTen = (CompletedCount(tasks) >= TenTasks)
    /\ failure = "none"
    /\ now = 12
    /\ currentWeek = now
    /\ zone \in {z \in Zones : z.name = "utc"}

NextRound == SaveEffect

SpecRound == InitRound /\ [][NextRound]_vars

(***************************************************************************)
(* The modal form: the application at rest over a stored list, the user    *)
(* opening the modal, changing the title and the date, and submitting,     *)
(* toggling or deleting, during the first day.                             *)
(***************************************************************************)
\* the stored lists: none, or one completed task whose fields all differ
\* from the form's reset values
FormStoredLists ==
    { <<>>,
      <<MkTask(0, [title |-> "a", description |-> "d", priority |-> "high",
                   category |-> "work"], DateStr(0), TRUE)>> }

InitForm ==
    /\ tasks \in FormStoredLists
    /\ storage = Stringify(tasks)
    /\ pending = <<>>
    /\ queued = <<>>
    /\ showModal = FALSE
    /\ selectedDate = EmptyStr
    /\ editingTask = <<>>
    /\ formData = BlankForm
    /\ showStats = FALSE
    /\ streak = 0
    /\ totalCompleted = 0
    /\ achievements = InitialAchievements
    /\ walkIters = 0
    /\ everUnlocked = {}
    /\ reachedTen = (CompletedCount(tasks) >= TenTasks)
    /\ failure = "none"
    /\ now = 12
    /\ currentWeek = now
    /\ zone \in AppZones

NextForm ==
    \/ SaveEffect
    \/ \E date \in ClickableDates : HandleDateClick(date)
    \/ \E task \in ClickableTasks(tasks, zone, currentWeek, now) : HandleEventClick(task)
    \/ QuickAdd
    \/ \E v \in {"b"} : ChangeField("title", v)
    \/ \E date \in AppDates : ChangeDate(date)
    \/ HandleSubmit
    \/ HandleDelete
    \/ ToggleTaskCompletion
    \/ CloseModal
    \/ \E t \in PanelInstants : Tick(t)

SpecForm == InitForm /\ [][NextForm]_vars

(***************************************************************************)
(* The three commands that address a task by id (update, delete, toggle),  *)
(* applied from the open modal to a store and an edited task drawn from    *)
(* bounded sets: the edited task's id is one of the store's or none of     *)
(* them.                                                                   *)
(***************************************************************************)
CmdTaskChoices ==
    {MkTask(0, [BlankForm EXCEPT !.title = "a"], DateStr(0), c) : c \in BOOLEAN}

InitCmd ==
    /\ tasks \in {Renumber(ts) : ts \in SeqsUpTo(CmdTaskChoices, MaxCmdTasks)}
    /\ \E id \in 1..(MaxCmdTasks + 1), c \in BOOLEAN :
          editingTask = <<MkTask(id, [BlankForm EXCEPT !.title = "a"], DateStr(0), c)>>
    /\ showModal = TRUE
    /\ formData = [BlankForm EXCEPT !.title = "b"]
    /\ selectedDate = DateStr(1)
    /\ storage = Stringify(tasks)
    /\ pending = <<>>
    /\ queued = <<>>
    /\ showStats = FALSE
    /\ streak = 0
    /\ totalCompleted = 0
    /\ achievements = InitialAchievements
    /\ walkIters = 0
    /\ everUnlocked = {}
    /\ reachedTen = (CompletedCount(tasks) >= TenTasks)
    /\ failure = "none"
    /\ now = 12
    /\ currentWeek = now
    /\ zone \in {z \in Zones : z.name = "utc"}

NextCmd ==
    \/ HandleSubmit
    \/ HandleDelete
    \/ ToggleTaskCompletion
    \/ SaveEffect
    \/ CloseModal

SpecCmd == InitCmd /\ [][NextCmd]_vars

(***************************************************************************)
(* The claims.                                                             *)
(***************************************************************************)
\* some task of ts is completed and dated the canonical text of day d
DayHasCompleted(ts, d) ==
    \E i \in DOMAIN ts : ts[i].completed /\ ts[i].date = DateStr(d)

\* the number of consecutive days, counted backward from day d itself, that
\* each have a completed task
RunLength(ts, d) ==
    CHOOSE k \in 0..Len(ts) :
        /\ \A j \in 0..(k - 1) : DayHasCompleted(ts, d - j)
        /\ ~DayHasCompleted(ts, d - k)

\* the stats panel has run its effect for the store and the clock as they are
StatsComputed == showStats /\ pending = <<>>

\* C1: the streak the stats component computes equals the number of
\* consecutive calendar days, counted backward from the anchor day itself,
\* that each have a completed task dated that day.
C1_StreakIsRunLength ==
    StatsComputed => streak = RunLength(tasks, UtcDay(now))

\* C2: when the store holds no completed task dated today (the anchor day of
\* the walk), the streak is 0, however many completed tasks earlier days have.
C2_NoCompletedTodayMeansZero ==
    (StatsComputed /\ ~DayHasCompleted(tasks, UtcDay(now))) => streak = 0

C2_Witness ==
    /\ StatsComputed
    /\ ~DayHasCompleted(tasks, UtcDay(now))
    /\ DayHasCompleted(tasks, UtcDay(now) - 1)
    /\ DayHasCompleted(tasks, UtcDay(now) - 2)
    /\ walkIters = 1
    /\ streak = 0

\* C3: a task dated by "Add Task for Today" at this moment and completed
\* counts in the streak computed at this same moment: the streak is at
\* least 1.
C3_TodayTaskCountsInStreak ==
    (\E i \in DOMAIN tasks :
        /\ tasks[i].id = NewId
        /\ tasks[i].date = FormatLocal(zone, now)
        /\ tasks[i].completed)
    => CurrentStreak(tasks, zone, now).streak >= 1

\* C4: for a fixed store, the streak at a gap day is 0, the streak at an
\* anchor equals the unbroken run of completed days ending there, and a
\* streak k >= 1 at an anchor means a streak k - 1 at the day before it.
C4_StreakAcrossAnchors ==
    StatsComputed =>
        LET k == CurrentStreak(tasks, zone, now).streak
            before == CurrentStreak(tasks, zone, now - HoursPerDay).streak
        IN  /\ ~DayHasCompleted(tasks, UtcDay(now)) => k = 0
            /\ k >= 1 => before = k - 1
            /\ \A d \in (UtcDay(now) - k + 1)..UtcDay(now) :
                  DayHasCompleted(tasks, d)

\* C5: the walk performs at most (number of distinct dates carrying a
\* completed task) + 1 iterations.
C5_WalkIterationBound ==
    StatsComputed =>
        walkIters <=
            Cardinality({tasks[i].date : i \in {j \in DOMAIN tasks : tasks[j].completed}}) + 1

\* the dates the calendar groups tasks for: the seven day cells of the
\* displayed week and today's list
GroupDates ==
    {WeekDays(zone, currentWeek)[i] : i \in 1..DaysPerWeek} \cup {now}

\* the tasks of ts dated the canonical text of the local day of D, in store
\* order
DatedOn(ts, z, D) ==
    LET Test(t) == t.date = DateStr(LocalDay(z, D))
    IN  SelectSeq(ts, Test)

\* C6: the grouping of a date is exactly the sub-sequence of the store's
\* tasks dated that date, in store order; so a task is in the grouping of
\* its own date and of no other.
C6_GroupingIsDateSubsequence ==
    \A D \in GroupDates :
        LET G == GetTasksForDate(tasks, zone, D)
        IN  /\ G = DatedOn(tasks, zone, D)
            /\ \A i \in DOMAIN tasks :
                  (\E j \in DOMAIN G : G[j] = tasks[i])
                  <=> tasks[i].date = DateStr(LocalDay(zone, D))

C6_Witness ==
    \E D \in GroupDates :
        LET G == GetTasksForDate(tasks, zone, D)
        IN  /\ Len(G) = 2
            /\ Len(tasks) = 4
            /\ G[1] = tasks[1]
            /\ G[2] = tasks[4]
            /\ currentWeek # now

\* C7: of a grouping of n tasks the calendar shows the first min(n, 3) in
\* store order, and the overflow count is shown iff n > 3 and is n - 3.
C7_ShownAndOverflow ==
    \A D \in GroupDates :
        LET G == GetTasksForDate(tasks, zone, D)
            n == Len(G)
            shown == ShownTasks(G)
        IN  /\ Len(shown) = (IF n < 3 THEN n ELSE 3)
            /\ \A j \in DOMAIN shown : shown[j] = G[j]
            /\ HasOverflow(G) <=> n > 3
            /\ HasOverflow(G) =>
                  /\ OverflowCount(G) = n - 3
                  /\ Len(shown) + OverflowCount(G) = n

C7_Witness ==
    \E D \in GroupDates :
        LET G == GetTasksForDate(tasks, zone, D)
        IN  /\ Len(G) = 5
            /\ Len(ShownTasks(G)) = 3
            /\ HasOverflow(G)
            /\ OverflowCount(G) = 2

\* C8: an empty store gives an empty grouping for each of the 7 days of the
\* displayed week, and a task whose date is missing or not canonical is in
\* the grouping of no day.
C8_MalformedDatesExcluded ==
    /\ tasks = <<>> =>
          \A i \in 1..DaysPerWeek :
              GetTasksForDate(tasks, zone, WeekDays(zone, currentWeek)[i]) = <<>>
    /\ \A i \in DOMAIN tasks :
          tasks[i].date.form # "iso" =>
              \A D \in GroupDates :
                  LET G == GetTasksForDate(tasks, zone, D)
                  IN  \A j \in DOMAIN G : G[j] # tasks[i]

C8_Witness ==
    /\ \E i \in DOMAIN tasks :
          /\ tasks[i].date.form = "short"
          /\ \E D \in GroupDates : LocalDay(zone, D) = tasks[i].date.day
    /\ \E i \in DOMAIN tasks : tasks[i].date.form = "missing"
    /\ \E D \in GroupDates : GetTasksForDate(tasks, zone, D) # <<>>

\* is achievement `id` unlocked in the list `achs`
Unlocked(achs, id) ==
    \E i \in DOMAIN achs : achs[i].id = id /\ achs[i].unlocked

\* C9: after a recomputation each achievement's flag equals its own
\* threshold on (totalCompleted, streak); with totalCompleted = 1 and
\* streak = 0 only first-task is unlocked.
C9_AchievementsMatchThresholds ==
    StatsComputed =>
        /\ Unlocked(achievements, "first-task") <=> totalCompleted >= 1
        /\ Unlocked(achievements, "streak-3") <=> streak >= 3
        /\ Unlocked(achievements, "streak-7") <=> streak >= 7
        /\ Unlocked(achievements, "tasks-10") <=> totalCompleted >= 10
        /\ Unlocked(achievements, "tasks-50") <=> totalCompleted >= 50
        /\ (totalCompleted = 1 /\ streak = 0) =>
              {achievements[i].id : i \in {j \in DOMAIN achievements :
                                              achievements[j].unlocked}}
              = {"first-task"}

C9_Witness ==
    /\ StatsComputed
    /\ totalCompleted = 10
    /\ streak = 7
    /\ Unlocked(achievements, "tasks-10")
    /\ Unlocked(achievements, "streak-7")
    /\ ~Unlocked(achievements, "tasks-50")

\* C10: each achievement starts locked, and one that has been unlocked is
\* unlocked whenever the stats panel shows its recomputed state later on.
C10_UnlockedIsTerminal ==
    /\ everUnlocked = {} =>
          \A i \in DOMAIN achievements : ~achievements[i].unlocked
    /\ StatsComputed =>
          \A id \in everUnlocked : Unlocked(achievements, id)

\* C11: whenever the stats panel shows its recomputed state, achievement
\* tasks-10 is unlocked if and only if the number of completed tasks has
\* at some point so far been 10 or more.
C11_TasksTenIffEverReached ==
    StatsComputed => (Unlocked(achievements, "tasks-10") <=> reachedTen)

\* the ids of the achievements unlocked in `achs`
UnlockedSet(achs) ==
    {achs[i].id : i \in {j \in DOMAIN achs : achs[j].unlocked}}

\* the unlocked set a recomputation over store ts gives at instant t
UnlockedSetAt(ts, z, t) ==
    UnlockedSet(UpdateAchievements(InitialAchievements, CompletedCount(ts),
                                   CurrentStreak(ts, z, t).streak))

\* the instants (whole hours) of the calendar day of t: the same UTC day
\* and the same local day
SameDayInstants(z, t) ==
    {u \in (UtcDay(t) * HoursPerDay)..(UtcDay(t) * HoursPerDay + HoursPerDay - 1) :
        LocalDay(z, u) = LocalDay(z, t)}

\* C12: the unlocked set shown after a recomputation depends on the task
\* list and the current day only: a recomputation over the same task list
\* at any other moment of the same day gives the same unlocked set.
C12_UnlockedDerivedFromListAndDay ==
    StatsComputed =>
        \A u \in SameDayInstants(zone, now) :
            UnlockedSet(achievements) = UnlockedSetAt(tasks, zone, u)

\* a step of one of the three commands that address a task by id
IdCommand == HandleSubmit \/ HandleDelete \/ ToggleTaskCompletion

\* the id the open modal addresses matches no task of the store
UnknownId ==
    /\ editingTask # <<>>
    /\ Head(editingTask).id \notin TaskIds(tasks)

\* C13: an update, delete or toggle command whose id matches no task of the
\* store fails with NotFound: the step reports that error.
C13_UnknownIdReportsNotFound ==
    [][(UnknownId /\ IdCommand) => failure' = "NotFound"]_vars

\* C14: an update, delete or toggle command whose id matches no task of the
\* store leaves the store as it was: the same tasks, in the same order,
\* every field equal.
C14_UnknownIdLeavesStore ==
    [][(UnknownId /\ IdCommand) => tasks' = tasks]_vars

\* a command has acted on a store of two tasks with an id none of them has
C14_Witness ==
    /\ UnknownId
    /\ Len(tasks) = 2
    /\ pending = <<"save">>
    /\ storage = Stringify(tasks)

\* C15: in every reachable state no two tasks of the store have the same
\* id, whatever create, update, delete and toggle commands were issued,
\* creations within one clock tick included.
C15_IdsUniqueInStore ==
    \A i, j \in DOMAIN tasks : i # j => tasks[i].id # tasks[j].id

\* C16: a task's completed flag is false at creation and changes only by
\* a toggle addressed to its id: a creation appends a task that is not
\* completed and keeps every other flag, an update keeps every flag, a
\* deletion keeps the remaining tasks as they were, a toggle keeps the tasks
\* of every other id as they were and flips those of the addressed id, and
\* no other step of the user changes the store.
C16_CompletedOnlyByToggle ==
    [][/\ (HandleSubmit /\ editingTask = <<>>) =>
            /\ Len(tasks') = Len(tasks) + 1
            /\ ~tasks'[Len(tasks')].completed
            /\ \A i \in DOMAIN tasks : tasks'[i] = tasks[i]
       /\ (HandleSubmit /\ editingTask # <<>>) =>
            /\ Len(tasks') = Len(tasks)
            /\ \A i \in DOMAIN tasks :
                  /\ tasks'[i].id = tasks[i].id
                  /\ tasks'[i].completed = tasks[i].completed
       /\ HandleDelete =>
            /\ \A j \in DOMAIN tasks' : \E i \in DOMAIN tasks : tasks'[j] = tasks[i]
            /\ \A i \in DOMAIN tasks :
                  tasks[i].id # Head(editingTask).id =>
                      \E j \in DOMAIN tasks' : tasks'[j] = tasks[i]
       /\ ToggleTaskCompletion =>
            /\ Len(tasks') = Len(tasks)
            /\ \A i \in DOMAIN tasks :
                  IF tasks[i].id = Head(editingTask).id
                  THEN tasks'[i] = [tasks[i] EXCEPT !.completed = ~tasks[i].completed]
                  ELSE tasks'[i] = tasks[i]
       /\ ~(HandleSubmit \/ HandleDelete \/ ToggleTaskCompletion \/ Rerender) =>
            tasks' = tasks
      ]_vars

\* the stored task, completed, has been given another date by an update
\* while a second task was created next to it, and it is still completed
C16_Witness ==
    /\ Len(tasks) = 2
    /\ tasks[1].id = 0
    /\ tasks[1].completed
    /\ tasks[1].date = DateStr(1)
    /\ ~tasks[2].completed

\* C17: at every quiescent state (every effect of the last mutation has
\* run) the storage entry holds the serialization of the current task
\* list: what it parses to is the in-memory list.
C17_StorageMirrorsStore ==
    Quiescent =>
        /\ storage = Stringify(tasks)
        /\ Parse(storage) = tasks

\* a task was created, completed and given another date; all of it is stored
C17_Witness ==
    /\ Quiescent
    /\ Len(tasks) = 2
    /\ tasks[2].completed
    /\ tasks[2].date # tasks[1].date
    /\ Parse(storage) = tasks

\* startup has completed and the user has issued no command yet (every
\* opening of the modal sets selectedDate)
StartupDone == Quiescent /\ selectedDate = EmptyStr

\* C18: on startup over a persisted task sequence S the store is exactly S
\* once startup has completed, and the storage then holds S.
C18_StartupRestoresStore ==
    \A S \in StoredLists :
        (storage = Stringify(S)) =>
            [](StartupDone => (tasks = S /\ storage = Stringify(S)))

C18_Witness ==
    /\ StartupDone
    /\ Len(tasks) = 1
    /\ tasks[1].id = 0
    /\ tasks[1].completed
    /\ storage = Stringify(tasks)

\* C19: on startup over an absent entry or over a text that is not the
\* serialization of a task sequence, the load step does not fail and leaves
\* the store empty, with nothing queued to replace it.
C19_StartupToleratesBadStorage ==
    [][(LoadEffect /\ storage \in {NoEntry, CorruptEntry}) =>
          /\ failure' = "none"
          /\ pending' # <<"crashed">>
          /\ tasks' = <<>>
          /\ queued' = <<>>]_vars

\* C20: a flush that fails does not crash the application: after a
\* QuotaExceededError the application is still running.
C20_FlushFailureIsNotFatal ==
    failure = "QuotaExceededError" => pending # <<"crashed">>

\* the stats panel shows the values of the store as it is now
StatsCurrent ==
    /\ totalCompleted = CompletedCount(tasks)
    /\ streak = CurrentStreak(tasks, zone, now).streak
    /\ UnlockedSet(achievements) = UnlockedSetAt(tasks, zone, now)

\* C21 as stated: the derived views are recomputed only after the flush:
\* whenever the stats panel recomputes streak and achievements, the storage
\* already holds the list they are computed from.
C21_FlushBeforeRecompute ==
    [][StatsEffect => storage = Stringify(tasks)]_vars

\* C21 as amended: after a mutation the stats panel, when shown, recomputes
\* streak and achievements first and the flush comes last: whenever the
\* save effect runs with the panel shown, the panel already shows the
\* values of the list being flushed.
C21_RecomputeBeforeFlush ==
    [][(SaveEffect /\ showStats) => StatsCurrent]_vars

\* the panel has recomputed over a mutated list that is not flushed yet
C21_Witness ==
    /\ showStats
    /\ pending = <<"save">>
    /\ tasks # <<>>
    /\ storage # Stringify(tasks)
    /\ StatsCurrent

\* C22: what the load path reads from a flushed store is the store: the
\* same length, the same order, and each of the seven fields equal.
C22_RoundTrip ==
    storage = Stringify(tasks) =>
        LET loaded == Parse(storage)
        IN  /\ Len(loaded) = Len(tasks)
            /\ \A i \in DOMAIN tasks : \A f \in TaskFields :
                  loaded[i][f] = tasks[i][f]
            /\ loaded = tasks

\* a store of a completed task without a date and a task that is not
\* completed has been flushed
C22_Witness ==
    /\ storage = Stringify(tasks)
    /\ pending = <<>>
    /\ Len(tasks) = 2
    /\ tasks[1].completed
    /\ tasks[1].date = NoDateStr
    /\ ~tasks[2].completed
    /\ tasks[2].date = DateStr(0)

C24_UpdateReplacesFields ==
    [][(HandleSubmit /\ editingTask # <<>>) =>
          /\ Len(tasks') = Len(tasks)
          /\ \A i \in DOMAIN tasks :
                IF tasks[i].id = Head(editingTask).id
                THEN /\ tasks'[i].id = tasks[i].id
                     /\ tasks'[i].completed = tasks[i].completed
                     /\ tasks'[i].title = formData.title
                     /\ tasks'[i].description = formData.description
                     /\ tasks'[i].priority = formData.priority
                     /\ tasks'[i].category = formData.category
                     /\ tasks'[i].date = selectedDate
                ELSE tasks'[i] = tasks[i]]_vars

\* the stored task was opened, toggled in the modal, given another title
\* and date and submitted: the store holds the toggled flag, not the one
\* the modal was opened with, and the second task is as it was created
C24_Witness ==
    /\ ~showModal
    /\ editingTask # <<>>
    /\ Len(tasks) = 2
    /\ tasks[1].id = Head(editingTask).id
    /\ tasks[1].id # tasks[2].id
    /\ tasks[1].completed # Head(editingTask).completed
    /\ tasks[1].title = "b"
    /\ Head(editingTask).title = "a"
    /\ tasks[1].date = DateStr(1)
    /\ tasks[1].priority = "high"

\* C25: a delete removes exactly one task and keeps the others as they
\* were, in their order; a toggle flips the completed flag of exactly one
\* task and changes nothing else.
C25_DeleteAndToggleHitOneTask ==
    [][/\ HandleDelete =>
            \E k \in DOMAIN tasks :
                tasks' = [i \in 1..(Len(tasks) - 1) |->
                             IF i < k THEN tasks[i] ELSE tasks[i + 1]]
       /\ ToggleTaskCompletion =>
            /\ Len(tasks') = Len(tasks)
            /\ \E k \in DOMAIN tasks :
                  /\ tasks'[k] = [tasks[k] EXCEPT !.completed = ~tasks[k].completed]
                  /\ \A i \in DOMAIN tasks \ {k} : tasks'[i] = tasks[i]
      ]_vars

\* C26: the summary's completed and pending counts add up to the number of
\* tasks, and when the stats panel is shown with no effect waiting its
\* "Completed" number is the summary's completed count.
C26_SummaryCountsAgree ==
    /\ SummaryCompleted(tasks) + SummaryPending(tasks) = SummaryTotal(tasks)
    /\ StatsComputed => totalCompleted = SummaryCompleted(tasks)

\* the panel is shown and up to date over a store that holds a completed and a
\* pending task
C26_Witness ==
    /\ StatsComputed
    /\ totalCompleted >= 1
    /\ SummaryPending(tasks) >= 1

\* C27: whenever the stats panel is shown and no recomputation is waiting,
\* the displayed streak and the displayed unlocked achievements are the ones
\* computed from the current task list and the current day, also after the
\* day has advanced with the panel open.
C27_DisplayedStatsFollowDay ==
    StatsComputed =>
        /\ streak = CurrentStreak(tasks, zone, now).streak
        /\ UnlockedSet(achievements) = UnlockedSetAt(tasks, zone, now)

\* C28: after a recomputation the streak is at most the number of completed
\* tasks, and the unlocked achievements are closed downwards along their
\* thresholds: streak-7 implies streak-3, tasks-50 implies tasks-10, and each
\* of streak-3 and tasks-10 implies first-task.
C28_StreakBoundedAndUnlocksClosed ==
    StatsComputed =>
        /\ streak <= totalCompleted
        /\ Unlocked(achievements, "streak-7") => Unlocked(achievements, "streak-3")
        /\ Unlocked(achievements, "tasks-50") => Unlocked(achievements, "tasks-10")
        /\ Unlocked(achievements, "streak-3") => Unlocked(achievements, "first-task")
        /\ Unlocked(achievements, "tasks-10") => Unlocked(achievements, "first-task")

\* the mount is not over: the load effect has not run yet, or the list it
\* read has not been rendered yet
Starting == (\E i \in DOMAIN pending : pending[i] = "load") \/ queued # <<>>

\* the tasks a storage entry holds
PersistedTasks(entry) ==
    IF entry.kind = "json" THEN SeqToSet(Parse(entry)) ELSE {}

\* C29: during startup no step takes a persisted task out of the storage:
\* until the loaded list is rendered, the entry holds every task it held
\* before the step, so every task persisted before startup.
C29_StartupKeepsPersistedTasks ==
    [][Starting => PersistedTasks(storage) \subseteq PersistedTasks(storage')]_vars

====
